---------------------------- MODULE Spec2Model ----------------------------
(***************************************************************************)
(* Model of the inventory transaction engine of SBF-Api:                   *)
(* TransactionService.create and the list calls fetch_all and              *)
(* fetch_all_with_pagination (src/app/modules/transactions/services.py)   *)
(* and the helpers it calls.                                               *)
(*                                                                         *)
(* The database is the pair (inventory, transactions).  Every caller of    *)
(* create() is a session in Sessions with its own local variables.         *)
(* Error kinds carry the names of the exception classes the code raises;   *)
(* the names the specification gives them are defined below.               *)
(***************************************************************************)
EXTENDS Integers, Sequences, FiniteSets, TLC

\* ------------------------------------------------------------------ bounds
NumProducts == 2      \* the catalog holds the products 1..NumProducts
MaxLen == 2           \* longest line-item list of a request (Spec)
MaxConcLen == 1       \* longest line-item list of a request (ConcSpec)
MaxQty == 1           \* largest quantity of one line item
MaxInit == 1          \* largest inventory of a product in the initial catalog
MaxCalls == 2         \* number of create() calls in a behaviour
NumSessions == 2      \* database sessions (callers of create)
MaxRows == 3          \* most transactions in the table a list call reads
MaxDate == 2          \* the dates are 1..MaxDate
MaxPage == 3          \* largest page number asked for
MaxPerPage == 2       \* largest page size asked for

Catalog == 1..NumProducts
\* the ids a request can name: the catalog and one id absent from it
ProductIds == 1..(NumProducts + 1)
Quantities == (0 - 1)..MaxQty
Sessions == 1..NumSessions
\* the providers table, and the values of provider_id: {} is None
Providers == {1}
ProviderIds == {{}, {1}, {2}}

LineItems == [product_id : ProductIds, quantity : Quantities]

\* ------------------------------------------------- error kinds of the code
EmptyTransaction == "ProductsNotFound"          \* services.py:363
InvalidQuantity == "InvalidStockQuantity"       \* services.py:274
ProductsNotFound == "ItensNotFound"             \* services.py:321
InsufficientStock == "NotEnoughStockQuantity"   \* services.py:305
ProviderNotFound == "ProviderNotFound"          \* services.py:246
AttributeError == "AttributeError"              \* services.py:246, None.name
StorageError == "StorageError"                  \* services.py:335-336 raising
InvalidDateRange == "InvalidRangeTime"          \* services.py:80
InvalidPage == "InvalidPage"                    \* services.py:198, 217
InvalidPageSize == "InvalidPageItemsNumber"     \* services.py:200
NoTransactionsFound == "ItensNotFound"          \* services.py:169, 219

NoError == [kind |-> "none", payload |-> <<>>]

VARIABLES
  inventory,         \* Product.inventory of every catalog product (committed)
  transactions,      \* the persisted transactions with their line items
  pc,                \* where each session's create() call stands
  request,           \* the argument `transaction` of the call
  checked_products,  \* local of create(): the normalized line items
  products_found,    \* local of create(): the Product rows the session loaded
  error,             \* the exception the call ended with
  steps,             \* the checks and storage accesses the call has made
  prior,             \* inventory and transactions when the call started
  initial,           \* the inventory of the initial catalog
  calls,             \* number of calls started
  caller_products,   \* the objects of transaction.products, as they are now
  listing            \* the last list call: its arguments and its result

vars == <<inventory, transactions, pc, request, checked_products,
          products_found, error, steps, prior, initial, calls,
          caller_products, listing>>

\* ---------------------------------------------------------------- helpers
Front(s) == SubSeq(s, 1, Len(s) - 1)
Last(s) == s[Len(s)]

Range(s) == {s[i] : i \in 1..Len(s)}

\* list.remove(x): drops the first occurrence of x
RECURSIVE ListRemove(_, _)
ListRemove(s, x) ==
  IF s = <<>> THEN <<>>
  ELSE IF Head(s) = x THEN Tail(s)
  ELSE <<Head(s)>> \o ListRemove(Tail(s), x)

\* sorted(payload, key=lambda v: v.product_id): a stable sort
RECURSIVE SortedInsert(_, _)
SortedInsert(s, v) ==
  IF s = <<>> THEN <<v>>
  ELSE IF Last(s).product_id <= v.product_id THEN Append(s, v)
  ELSE Append(SortedInsert(Front(s), v), Last(s))

\* mutant: the payload is not sorted
Unsorted(payload) == payload

RECURSIVE sorted(_)
sorted(payload) ==
  IF payload = <<>> THEN <<>>
  ELSE SortedInsert(sorted(Front(payload)), Last(payload))


\* ------------------------------------------------- the helpers of create()

\* mutant: the empty check left out
IsEmptyTransactionNever(products) == FALSE

\* len(transaction.products) == 0
IsEmptyTransaction(products) == Len(products) = 0

\* _check_provider_existence: TRUE when the call goes on.  The query runs
\* only for a provider_id that is not None; a provider that is not found
\* makes the raise statement evaluate provider.name on None.
ProviderQueried(provider_id) == provider_id # {}
ProviderExists(provider_id) == provider_id \subseteq Providers
ProviderError == [kind |-> AttributeError, payload |-> <<>>]

\* _sort_by_id_check_and_sum_duplicates: the loop over sorted_payload from
\* position i on, with the locals already_added and checked_payload
RECURSIVE SumDuplicatesLoop(_, _, _, _)
SumDuplicatesLoop(sorted_payload, i, already_added, checked_payload) ==
  IF i > Len(sorted_payload) THEN checked_payload
  ELSE LET value == sorted_payload[i] IN
    IF value.product_id \notin Range(already_added)
    THEN SumDuplicatesLoop(sorted_payload, i + 1,
                           Append(already_added, value.product_id),
                           Append(checked_payload, value))
    ELSE SumDuplicatesLoop(sorted_payload, i + 1, already_added,
           [checked_payload EXCEPT ![Len(checked_payload)].quantity =
              @ + value.quantity])

\* mutant: a repeated product is dropped instead of summed
RECURSIVE DropDuplicatesLoop(_, _, _, _)
DropDuplicatesLoop(sorted_payload, i, already_added, checked_payload) ==
  IF i > Len(sorted_payload) THEN checked_payload
  ELSE LET value == sorted_payload[i] IN
    IF value.product_id \notin Range(already_added)
    THEN DropDuplicatesLoop(sorted_payload, i + 1,
                            Append(already_added, value.product_id),
                            Append(checked_payload, value))
    ELSE DropDuplicatesLoop(sorted_payload, i + 1, already_added,
                            checked_payload)

SortAndDropDuplicates(payload) ==
  DropDuplicatesLoop(sorted(payload), 1, <<>>, <<>>)

\* mutant: a repeated product is summed and appended as well
RECURSIVE SumAndKeepLoop(_, _, _, _)
SumAndKeepLoop(sorted_payload, i, already_added, checked_payload) ==
  IF i > Len(sorted_payload) THEN checked_payload
  ELSE LET value == sorted_payload[i] IN
    IF value.product_id \notin Range(already_added)
    THEN SumAndKeepLoop(sorted_payload, i + 1,
                        Append(already_added, value.product_id),
                        Append(checked_payload, value))
    ELSE SumAndKeepLoop(sorted_payload, i + 1, already_added,
           Append([checked_payload EXCEPT ![Len(checked_payload)].quantity =
                     @ + value.quantity], value))

SortSumAndKeepDuplicates(payload) ==
  SumAndKeepLoop(sorted(payload), 1, <<>>, <<>>)

_sort_by_id_check_and_sum_duplicates(payload) ==
  SumDuplicatesLoop(sorted(payload), 1, <<>>, <<>>)

\* The same function on the objects of the caller's list.  sorted() returns
\* a new list of the same objects, here their positions in payload;
\* checked_payload holds some of these objects, last is the position of
\* checked_payload[-1], and line 259 adds to that object's quantity.
RECURSIVE SortedPositionInsert(_, _, _)
SortedPositionInsert(payload, order, pos) ==
  IF order = <<>> THEN <<pos>>
  ELSE IF payload[Last(order)].product_id <= payload[pos].product_id
  THEN Append(order, pos)
  ELSE Append(SortedPositionInsert(payload, Front(order), pos), Last(order))

RECURSIVE SortedPositions(_, _)
SortedPositions(payload, n) ==
  IF n = 0 THEN <<>>
  ELSE SortedPositionInsert(payload, SortedPositions(payload, n - 1), n)

RECURSIVE InPlaceLoop(_, _, _, _, _)
InPlaceLoop(payload, order, i, already_added, last) ==
  IF i > Len(order) THEN payload
  ELSE LET value == payload[order[i]] IN
    IF value.product_id \notin Range(already_added)
    THEN InPlaceLoop(payload, order, i + 1,
                     Append(already_added, value.product_id), order[i])
    ELSE InPlaceLoop([payload EXCEPT ![last].quantity = @ + value.quantity],
                     order, i + 1, already_added, last)

\* the caller's list after _sort_by_id_check_and_sum_duplicates(payload)
PayloadAfter(payload) ==
  InPlaceLoop(payload, SortedPositions(payload, Len(payload)), 1, <<>>, 0)

\* _check_if_products_payload_is_greater_than_zero: the ids it returns and
\* the ids it puts in InvalidStockQuantity
PayloadIds(payload) == [i \in 1..Len(payload) |-> payload[i].product_id]

\* mutant: only a quantity of zero is rejected
RECURSIVE InvalidStockIdsZeroOnly(_)
InvalidStockIdsZeroOnly(payload) ==
  IF payload = <<>> THEN <<>>
  ELSE (IF Head(payload).quantity = 0 THEN <<Head(payload).product_id>>
        ELSE <<>>) \o InvalidStockIdsZeroOnly(Tail(payload))

\* mutant: the loop stops at the first offender
RECURSIVE InvalidStockIdsFirstOffender(_)
InvalidStockIdsFirstOffender(payload) ==
  IF payload = <<>> THEN <<>>
  ELSE IF Head(payload).quantity <= 0 THEN <<Head(payload).product_id>>
  ELSE InvalidStockIdsFirstOffender(Tail(payload))

RECURSIVE InvalidStockIds(_)
InvalidStockIds(payload) ==
  IF payload = <<>> THEN <<>>
  ELSE (IF Head(payload).quantity <= 0 THEN <<Head(payload).product_id>>
        ELSE <<>>) \o InvalidStockIds(Tail(payload))

\* db.query(Product).filter(Product.id.in_(ids)).order_by(Product.id).all()
\* over the products i..NumProducts of the catalog whose inventory is inv
RECURSIVE QueryProducts(_, _, _)
QueryProducts(inv, ids, i) ==
  IF i > NumProducts THEN <<>>
  ELSE (IF i \in Range(ids) THEN <<[id |-> i, inventory |-> inv[i]]>>
        ELSE <<>>) \o QueryProducts(inv, ids, i + 1)

\* _get_products_from_database: the ids left in payload_products_id after
\* the loop that removes every product found
\* mutant: the loop removes nothing
RemoveFoundNothing(products, payload_products_id) == payload_products_id

RECURSIVE RemoveFound(_, _)
RemoveFound(products, payload_products_id) ==
  IF products = <<>> THEN payload_products_id
  ELSE RemoveFound(Tail(products),
         IF Head(products).id \in Range(payload_products_id)
         THEN ListRemove(payload_products_id, Head(products).id)
         ELSE payload_products_id)

AllProductsFound(products, payload_products_id) ==
  Len(products) = Len(payload_products_id)

\* zip(products_found, products_payload)
ZipLen(products, payload) ==
  IF Len(products) < Len(payload) THEN Len(products) ELSE Len(payload)

\* mutant: a quantity equal to the inventory is rejected too
RECURSIVE NotEnoughIdsGE(_, _, _)
NotEnoughIdsGE(products, payload, i) ==
  IF i > ZipLen(products, payload) THEN <<>>
  ELSE (IF payload[i].quantity >= products[i].inventory
        THEN <<products[i].id>> ELSE <<>>)
       \o NotEnoughIdsGE(products, payload, i + 1)

\* mutant: only the first pair of the zip is checked
NotEnoughIdsFirstOnly(products, payload, i) ==
  IF ZipLen(products, payload) >= 1
     /\ payload[1].quantity > products[1].inventory
  THEN <<products[1].id>> ELSE <<>>

\* _check_if_stock_has_enough_outgoing_quantity: the ids it collects
RECURSIVE NotEnoughIds(_, _, _)
NotEnoughIds(products, payload, i) ==
  IF i > ZipLen(products, payload) THEN <<>>
  ELSE (IF payload[i].quantity > products[i].inventory
        THEN <<products[i].id>> ELSE <<>>)
       \o NotEnoughIds(products, payload, i + 1)

\* _update_products_inventory: the mappings handed to bulk_update_mappings
IncomingMappings(products, payload) ==
  [i \in 1..ZipLen(products, payload) |->
     [id |-> products[i].id,
      inventory |-> products[i].inventory + payload[i].quantity]]

\* _update_products_inventory_outgoing: the same with a subtraction
OutgoingMappings(products, payload) ==
  [i \in 1..ZipLen(products, payload) |->
     [id |-> products[i].id,
      inventory |-> products[i].inventory - payload[i].quantity]]

\* db.bulk_update_mappings(Product, dict_products); db.commit()
BulkUpdate(inv, mappings) ==
  [p \in Catalog |->
     IF \E i \in 1..Len(mappings) : mappings[i].id = p
     THEN mappings[CHOOSE i \in 1..Len(mappings) : mappings[i].id = p].inventory
     ELSE inv[p]]


\* ------------------------------------------------------------ create()

\* Transaction.insert(db) of the model base class: adds the record with its
\* line items to the session and commits it, on its own, before create()
\* goes on to the inventory.
insert(table, record) == Append(table, record)

\* The checks of create() up to the write (lines 362-372 and 396-403) for
\* the request req against the committed inventory inv: the exception they
\* end with (NoError when all pass), the locals and the steps made.
Outcome(err, checked, found, made) ==
  [error |-> err, checked_products |-> checked, products_found |-> found,
   steps |-> made]

\* mutant: the products are looked up before the quantities are checked
ProductChecksLookupFirst(req, inv, made) ==
  LET checked == _sort_by_id_check_and_sum_duplicates(req.products)
      invalid == InvalidStockIds(checked)
      products_ids == PayloadIds(checked)
      found == QueryProducts(inv, products_ids, 1)
      madeL == made \o <<"normalize", "product_lookup">>
      madeQ == madeL \o <<"positive_check">>
  IN IF ~AllProductsFound(found, products_ids)
     THEN Outcome([kind |-> ProductsNotFound,
                   payload |-> RemoveFound(found, products_ids)],
                  checked, <<>>, madeL)
     ELSE IF Len(invalid) > 0
     THEN Outcome([kind |-> InvalidQuantity, payload |-> invalid],
                  checked, <<>>, madeQ)
     ELSE IF req.type = "outgoing"
     THEN LET short == NotEnoughIds(found, checked, 1) IN
          IF Len(short) > 0
          THEN Outcome([kind |-> InsufficientStock, payload |-> short],
                       checked, found, madeQ \o <<"stock_check">>)
          ELSE Outcome(NoError, checked, found, madeQ \o <<"stock_check">>)
     ELSE Outcome(NoError, checked, found, madeQ)

ProductChecks(req, inv, made) ==
  LET checked == _sort_by_id_check_and_sum_duplicates(req.products)
      invalid == InvalidStockIds(checked)
      products_ids == PayloadIds(checked)
      found == QueryProducts(inv, products_ids, 1)
      madeQ == made \o <<"normalize", "positive_check">>
      madeL == madeQ \o <<"product_lookup">>
  IN IF Len(invalid) > 0
     THEN Outcome([kind |-> InvalidQuantity, payload |-> invalid],
                  checked, <<>>, madeQ)
     ELSE IF ~AllProductsFound(found, products_ids)
     THEN Outcome([kind |-> ProductsNotFound,
                   payload |-> RemoveFound(found, products_ids)],
                  checked, <<>>, madeL)
     ELSE IF req.type = "outgoing"
     THEN LET short == NotEnoughIds(found, checked, 1) IN
          IF Len(short) > 0
          THEN Outcome([kind |-> InsufficientStock, payload |-> short],
                       checked, found, madeL \o <<"stock_check">>)
          ELSE Outcome(NoError, checked, found, madeL \o <<"stock_check">>)
     ELSE Outcome(NoError, checked, found, madeL)

CreateChecks(req, inv) ==
  IF IsEmptyTransaction(req.products)
  THEN Outcome([kind |-> EmptyTransaction, payload |-> <<>>],
               <<>>, <<>>, <<"empty_check">>)
  ELSE IF req.type = "incoming"
  THEN IF ProviderQueried(req.provider_id)
       THEN IF ProviderExists(req.provider_id)
            THEN ProductChecks(req, inv, <<"empty_check", "provider_lookup">>)
            ELSE Outcome(ProviderError, <<>>, <<>>,
                         <<"empty_check", "provider_lookup">>)
       ELSE ProductChecks(req, inv, <<"empty_check">>)
  ELSE ProductChecks(req, inv, <<"empty_check">>)

\* the requests: an incoming one may name a provider, an outgoing one has
\* none; at most n line items
RECURSIVE SeqsUpTo(_, _)
SeqsUpTo(S, n) ==
  IF n = 0 THEN {<<>>}
  ELSE LET shorter == SeqsUpTo(S, n - 1) IN
       shorter \cup {Append(s, x) : s \in {t \in shorter : Len(t) = n - 1},
                                    x \in S}

Requests(n) ==
  [type : {"incoming"}, provider_id : ProviderIds,
   products : SeqsUpTo(LineItems, n)]
  \cup [type : {"outgoing"}, provider_id : {{}},
        products : SeqsUpTo(LineItems, n)]

NoListing == [op |-> "none"]

NoRequest == [type |-> "none", provider_id |-> {}, products |-> <<>>]
NoPrior == [inventory |-> <<>>, transactions |-> <<>>]

Idle(s) == pc[s] = "idle"

\* create(), lines 362-372 (incoming) and 362-363, 396-403 (outgoing): the
\* checks and the product lookup.  The products table is read once, so the
\* step is atomic; the providers table is not written by this service.
Create(s, req) ==
  /\ pc[s] = "idle"
  /\ calls < MaxCalls
  /\ LET out == CreateChecks(req, inventory) IN
       /\ pc' = [pc EXCEPT ![s] =
                   IF out.error = NoError THEN "checked" ELSE "failed"]
       /\ error' = [error EXCEPT ![s] = out.error]
       /\ checked_products' = [checked_products EXCEPT ![s] = out.checked_products]
       /\ products_found' = [products_found EXCEPT ![s] = out.products_found]
       /\ steps' = [steps EXCEPT ![s] = out.steps]
  /\ request' = [request EXCEPT ![s] = req]
  /\ prior' = [prior EXCEPT ![s] =
                 [inventory |-> inventory, transactions |-> transactions]]
  /\ calls' = calls + 1
  /\ caller_products' = [caller_products EXCEPT ![s] =
                   IF "normalize" \in Range(CreateChecks(req, inventory).steps)
                   THEN PayloadAfter(req.products) ELSE req.products]
  /\ UNCHANGED <<inventory, transactions, initial, listing>>

\* a record built from the batch as submitted instead of checked_products
TransactionRecordOfSubmitted(s) ==
  [id |-> Len(transactions) + 1,
   type |-> request[s].type,
   provider_id |-> request[s].provider_id,
   created_by |-> s,
   products_transaction |-> request[s].products]

\* create(), lines 374-389 and 405-420: the Transaction record with one
\* TransactionProduct per entry of checked_products, inserted.
TransactionRecord(s) ==
  [id |-> Len(transactions) + 1,
   type |-> request[s].type,
   provider_id |-> request[s].provider_id,
   created_by |-> s,
   products_transaction |-> checked_products[s]]

Insert(s) ==
  /\ pc[s] = "checked"
  /\ transactions' = insert(transactions, TransactionRecord(s))
  /\ pc' = [pc EXCEPT ![s] = "inserted"]
  /\ steps' = [steps EXCEPT ![s] = Append(@, "insert")]
  /\ UNCHANGED <<inventory, request, checked_products, products_found,
                 error, prior, initial, calls, caller_products,
                 listing>>

\* p_found.inventory as the update reads it: the value the lookup loaded,
\* or, when the commit of the insert expired the instance, the committed
\* value re-read on access.
Reloaded(products, inv) ==
  [i \in 1..Len(products) |-> [id |-> products[i].id,
                               inventory |-> inv[products[i].id]]]

\* create(), lines 392 and 423: _update_products_inventory or
\* _update_products_inventory_outgoing, with their commit
UpdatedInventory(type, products, payload, inv) ==
  BulkUpdate(inv, IF type = "incoming"
                  THEN IncomingMappings(products, payload)
                  ELSE OutgoingMappings(products, payload))

UpdateInventory(s) ==
  /\ pc[s] = "inserted"
  /\ \E expired \in BOOLEAN :
       LET products == IF expired
                       THEN Reloaded(products_found[s], inventory)
                       ELSE products_found[s]
       IN /\ inventory' = UpdatedInventory(request[s].type, products,
                                           checked_products[s], inventory)
          /\ products_found' = [products_found EXCEPT ![s] = products]
  /\ pc' = [pc EXCEPT ![s] = "done"]
  /\ steps' = [steps EXCEPT ![s] = Append(@, "update")]
  /\ UNCHANGED <<transactions, request, checked_products, error, prior,
                 initial, calls, caller_products, listing>>

\* The inventory update raises (the storage fails, the process is stopped):
\* the call ends after the insert was committed.
UpdateFails(s) ==
  /\ pc[s] = "inserted"
  /\ pc' = [pc EXCEPT ![s] = "failed"]
  /\ error' = [error EXCEPT ![s] = [kind |-> StorageError, payload |-> <<>>]]
  /\ UNCHANGED <<inventory, transactions, request, checked_products,
                 products_found, steps, prior, initial, calls,
                 caller_products, listing>>

\* the call has returned or raised: the session is free for the next one
Return(s) ==
  /\ pc[s] \in {"done", "failed"}
  /\ pc' = [pc EXCEPT ![s] = "idle"]
  /\ request' = [request EXCEPT ![s] = NoRequest]
  /\ checked_products' = [checked_products EXCEPT ![s] = <<>>]
  /\ products_found' = [products_found EXCEPT ![s] = <<>>]
  /\ error' = [error EXCEPT ![s] = NoError]
  /\ steps' = [steps EXCEPT ![s] = <<>>]
  /\ prior' = [prior EXCEPT ![s] = NoPrior]
  /\ caller_products' = [caller_products EXCEPT ![s] = <<>>]
  /\ UNCHANGED <<inventory, transactions, initial, calls, listing>>

\* ------------------------------------------------------- specifications
Init ==
  /\ inventory \in [Catalog -> 0..MaxInit]
  /\ initial = inventory
  /\ transactions = <<>>
  /\ pc = [s \in Sessions |-> "idle"]
  /\ request = [s \in Sessions |-> NoRequest]
  /\ checked_products = [s \in Sessions |-> <<>>]
  /\ products_found = [s \in Sessions |-> <<>>]
  /\ error = [s \in Sessions |-> NoError]
  /\ steps = [s \in Sessions |-> <<>>]
  /\ prior = [s \in Sessions |-> NoPrior]
  /\ calls = 0
  /\ caller_products = [s \in Sessions |-> <<>>]
  /\ listing = NoListing

\* calls executed one at a time
SeqCreate(s) ==
  /\ \A t \in Sessions : Idle(t)
  /\ \E req \in Requests(MaxLen) : Create(s, req)

\* calls of several sessions interleaved
ConcCreate(s) == \E req \in Requests(MaxConcLen) : Create(s, req)

Next ==
  \E s \in Sessions :
    \/ SeqCreate(s)
    \/ Insert(s)
    \/ UpdateInventory(s)
    \/ UpdateFails(s)
    \/ Return(s)

Spec == Init /\ [][Next]_vars

ConcNext ==
  \E s \in Sessions :
    \/ ConcCreate(s)
    \/ Insert(s)
    \/ UpdateInventory(s)
    \/ Return(s)

ConcSpec == Init /\ [][ConcNext]_vars


\* ------------------------------------------------------- the list calls

\* The values of start_date and finish_date: a date, None (the default of
\* fetch_all and fetch_all_with_pagination) or '' (the default of
\* _make_transaction_query_with_filters).
Dates == 1..MaxDate
DateValue(d) == [type |-> "date", value |-> d]
NoneValue == [type |-> "NoneType", value |-> 0]
EmptyString == [type |-> "str", value |-> 0]
DateArgs == {DateValue(d) : d \in Dates} \cup {NoneValue, EmptyString}

\* transaction_type: '' or a member of TransactionTypeEnum
TypeArgs == {"", "incoming", "outgoing"}

\* the transactions table a list call reads: ids 1..n, any dates and types
Tables ==
  {[i \in 1..Len(t) |-> [id |-> i, date |-> t[i].date, type |-> t[i].type]] :
     t \in SeqsUpTo([date : Dates, type : {"incoming", "outgoing"}], MaxRows)}

\* mutant: the range of the dates is not checked
DateRangeInvalidNever(start_date, finish_date) == FALSE

\* start_date > finish_date, line 79
DateRangeInvalid(start_date, finish_date) ==
  start_date.value > finish_date.value

\* _make_transaction_query_with_filters, lines 77-96: the date filter the
\* query gets, or the error
DateFilter(start_date, finish_date) ==
  IF start_date.type = "date" /\ finish_date.type = "date"
  THEN IF DateRangeInvalid(start_date, finish_date)
       THEN "InvalidRangeTime" ELSE "between"
  ELSE IF start_date.type = "date" /\ finish_date = EmptyString
  THEN "from"
  ELSE IF finish_date.type = "date" /\ start_date = EmptyString
  THEN "until"
  ELSE "none"

\* the rows the query built by _make_transaction_query_with_filters selects,
\* ordered by Transaction.id (the product-name, provider-name and
\* description filters are left '')
RowSelected(row, start_date, finish_date, transaction_type) ==
  LET f == DateFilter(start_date, finish_date) IN
    /\ f = "between" =>
         row.date >= start_date.value /\ row.date <= finish_date.value
    /\ f = "from" => row.date >= start_date.value
    /\ f = "until" => row.date <= finish_date.value
    /\ transaction_type # "" => row.type = transaction_type

QueryRows(table, start_date, finish_date, transaction_type) ==
  SelectSeq(table,
    LAMBDA row : RowSelected(row, start_date, finish_date, transaction_type))

\* the result of a list call
ListResult(op, args, err, records, total_pages, total_items, reads) ==
  [op |-> op, page |-> args.page, per_page |-> args.per_page,
   start_date |-> args.start_date, finish_date |-> args.finish_date,
   transaction_type |-> args.transaction_type,
   error |-> err, records |-> records, total_pages |-> total_pages,
   total_items |-> total_items, reads |-> reads]

\* fetch_all, lines 152-171
fetch_all(table, args) ==
  IF DateFilter(args.start_date, args.finish_date) = "InvalidRangeTime"
  THEN ListResult("fetch_all", args, InvalidDateRange, <<>>, 0, 0, 0)
  ELSE LET transactions_found ==
             QueryRows(table, args.start_date, args.finish_date,
                       args.transaction_type)
       IN IF Len(transactions_found) = 0
          THEN ListResult("fetch_all", args, NoTransactionsFound, <<>>, 0, 0, 1)
          ELSE ListResult("fetch_all", args, "none", transactions_found,
                          0, 0, 1)

\* apply_pagination of sqlalchemy_filters for page_number >= 1 and
\* page_size >= 1: the rows of the page and num_pages
Min(a, b) == IF a < b THEN a ELSE b

\* mutant: the offset is page_number * page_size
PageRowsOffByOnePage(rows, page_number, page_size) ==
  SubSeq(rows, page_number * page_size + 1,
         Min((page_number + 1) * page_size, Len(rows)))

PageRows(rows, page_number, page_size) ==
  SubSeq(rows, (page_number - 1) * page_size + 1,
         Min(page_number * page_size, Len(rows)))

NumPages(page_size, total_results) ==
  (total_results + page_size - 1) \div page_size

\* mutant: the last page is turned down too
PageBeyondOrLast(page, num_pages) == page >= num_pages /\ num_pages > 0

\* page > pagination.num_pages and pagination.num_pages > 0, line 216
PageBeyond(page, num_pages) == page > num_pages /\ num_pages > 0

\* fetch_all_with_pagination, lines 197-240
fetch_all_with_pagination(table, args) ==
  IF args.page <= 0
  THEN ListResult("fetch_all_with_pagination", args, InvalidPage,
                  <<>>, 0, 0, 0)
  ELSE IF args.per_page <= 0
  THEN ListResult("fetch_all_with_pagination", args, InvalidPageSize,
                  <<>>, 0, 0, 0)
  ELSE IF DateFilter(args.start_date, args.finish_date) = "InvalidRangeTime"
  THEN ListResult("fetch_all_with_pagination", args, InvalidDateRange,
                  <<>>, 0, 0, 0)
  ELSE LET rows == QueryRows(table, args.start_date, args.finish_date,
                             args.transaction_type)
           total_results == Len(rows)
           num_pages == NumPages(args.per_page, total_results)
           transactions_found == PageRows(rows, args.page, args.per_page)
       IN IF PageBeyond(args.page, num_pages)
          THEN ListResult("fetch_all_with_pagination", args, InvalidPage,
                          <<>>, num_pages, total_results, 2)
          ELSE IF Len(transactions_found) = 0
          THEN ListResult("fetch_all_with_pagination", args,
                          NoTransactionsFound, <<>>, num_pages,
                          total_results, 2)
          ELSE ListResult("fetch_all_with_pagination", args, "none",
                          transactions_found, num_pages, total_results, 2)

FilterArgs ==
  [page : {0}, per_page : {0}, start_date : DateArgs, finish_date : DateArgs,
   transaction_type : TypeArgs]

PagedArgs ==
  [page : (0 - 1)..MaxPage, per_page : (0 - 1)..MaxPerPage,
   start_date : DateArgs, finish_date : DateArgs, transaction_type : TypeArgs]

FetchAll ==
  /\ listing = NoListing
  /\ \E args \in FilterArgs : listing' = fetch_all(transactions, args)
  /\ UNCHANGED <<inventory, transactions, pc, request, checked_products,
                 products_found, error, steps, prior, initial, calls,
                 caller_products>>

FetchAllWithPagination ==
  /\ listing = NoListing
  /\ \E args \in PagedArgs :
       listing' = fetch_all_with_pagination(transactions, args)
  /\ UNCHANGED <<inventory, transactions, pc, request, checked_products,
                 products_found, error, steps, prior, initial, calls,
                 caller_products>>

\* the list call has returned or raised
ListReturn ==
  /\ listing # NoListing
  /\ listing' = NoListing
  /\ UNCHANGED <<inventory, transactions, pc, request, checked_products,
                 products_found, error, steps, prior, initial, calls,
                 caller_products>>

\* the list calls read a transactions table that earlier calls of create()
\* have left; no create() runs meanwhile
QueryInit ==
  /\ transactions \in Tables
  /\ inventory = [p \in Catalog |-> 0]
  /\ initial = inventory
  /\ pc = [s \in Sessions |-> "idle"]
  /\ request = [s \in Sessions |-> NoRequest]
  /\ checked_products = [s \in Sessions |-> <<>>]
  /\ products_found = [s \in Sessions |-> <<>>]
  /\ error = [s \in Sessions |-> NoError]
  /\ steps = [s \in Sessions |-> <<>>]
  /\ prior = [s \in Sessions |-> NoPrior]
  /\ calls = 0
  /\ caller_products = [s \in Sessions |-> <<>>]
  /\ listing = NoListing

QueryNext == FetchAll \/ FetchAllWithPagination \/ ListReturn

QuerySpec == QueryInit /\ [][QueryNext]_vars

\* ------------------------------------------------------------- properties

\* the product ids a request names, and the quantity it asks of one
Named(s) == {request[s].products[i].product_id :
               i \in 1..Len(request[s].products)}

RECURSIVE QuantityOf(_, _)
QuantityOf(items, p) ==
  IF items = <<>> THEN 0
  ELSE (IF Head(items).product_id = p THEN Head(items).quantity ELSE 0)
       + QuantityOf(Tail(items), p)

Requested(s, p) == QuantityOf(request[s].products, p)

Called(s) == pc[s] # "idle"
Failed(s, kind) == pc[s] = "failed" /\ error[s].kind = kind
NothingChanged(s) ==
  /\ inventory = prior[s].inventory
  /\ transactions = prior[s].transactions

\* what the persisted transactions of one type moved of product p
RECURSIVE Moved(_, _, _)
Moved(table, type, p) ==
  IF table = <<>> THEN 0
  ELSE (IF Head(table).type = type
        THEN QuantityOf(Head(table).products_transaction, p) ELSE 0)
       + Moved(Tail(table), type, p)

Reconciled ==
  \A p \in Catalog :
    inventory[p] = initial[p] + Moved(transactions, "incoming", p)
                              - Moved(transactions, "outgoing", p)

\* C1: with calls executed one at a time, from a catalog whose inventories
\* are all >= 0, every product's inventory is >= 0 in every state.
C1_InventoryNeverNegative == \A p \in Catalog : inventory[p] >= 0

\* C1 witness: a second call, outgoing, has succeeded and emptied a product
C1_Witness ==
  \E s \in Sessions, p \in Catalog :
    /\ pc[s] = "done" /\ request[s].type = "outgoing" /\ calls = MaxCalls
    /\ prior[s].inventory[p] > 0 /\ inventory[p] = 0

\* C2 (as claimed): in every committed state, also between the two
\* persistence steps of a call and after a call that failed between them,
\* the inventory carries the effect of exactly the persisted transactions.
C2_InsertAndUpdateAtomic == Reconciled

\* C3 (as claimed): with outgoing calls interleaved, no product's inventory
\* is ever below zero.
C3_NoNegativeUnderInterleaving ==
  \A s \in Sessions, p \in Catalog :
    (Called(s) /\ request[s].type = "outgoing") => inventory[p] >= 0

\* C4 (as claimed): whenever no call is in progress, after interleaved calls
\* that each ran to completion, every product's inventory is its initial
\* inventory plus what the persisted incoming transactions brought minus
\* what the persisted outgoing transactions took.
C4_ReconciledWhenQuiescent ==
  (\A s \in Sessions : pc[s] \in {"idle", "done", "failed"}) => Reconciled

\* C5: after a successful incoming call every product named in the batch has
\* its prior inventory plus the sum of the quantities requested for it.
C5_IncomingAddsRequested ==
  \A s \in Sessions :
    (pc[s] = "done" /\ request[s].type = "incoming") =>
      \A p \in Named(s) :
        /\ p \in Catalog
        /\ inventory[p] = prior[s].inventory[p] + Requested(s, p)

\* C5 witness: a successful incoming call whose batch repeats a product
C5_Witness ==
  \E s \in Sessions :
    /\ pc[s] = "done" /\ request[s].type = "incoming"
    /\ Len(request[s].products) = 2
    /\ request[s].products[1].product_id = request[s].products[2].product_id
    /\ request[s].products[1].quantity > 0
    /\ request[s].products[2].quantity > 0

\* C6: after a successful outgoing call every product named in the batch has
\* its prior inventory minus the sum of the quantities requested for it, and
\* a batch is turned down for its stock only when some merged quantity is
\* greater than the inventory (one equal to the inventory succeeds, and
\* leaves 0).
C6_OutgoingSubtractsRequested ==
  \A s \in Sessions :
    /\ (pc[s] = "done" /\ request[s].type = "outgoing") =>
         \A p \in Named(s) :
           /\ p \in Catalog
           /\ inventory[p] = prior[s].inventory[p] - Requested(s, p)
    /\ Failed(s, InsufficientStock) =>
         \E p \in Named(s) \cap Catalog :
           Requested(s, p) > prior[s].inventory[p]

\* C6 witness: a successful outgoing call that took a product's whole
\* inventory, asked for in two line items
C6_Witness ==
  \E s \in Sessions, p \in Catalog :
    /\ pc[s] = "done" /\ request[s].type = "outgoing"
    /\ Len(request[s].products) = 2
    /\ Requested(s, p) = prior[s].inventory[p]
    /\ request[s].products[1].quantity < Requested(s, p)
    /\ inventory[p] = 0

\* an outgoing call asks more of some catalog product than its inventory
AsksTooMuch(s) ==
  /\ Called(s) /\ request[s].type = "outgoing"
  /\ \E p \in Named(s) \cap Catalog : Requested(s, p) > prior[s].inventory[p]

FailedInsufficientUnchanged(s) ==
  Failed(s, InsufficientStock) /\ NothingChanged(s)

\* C7 (as claimed): an outgoing call in which some product's merged quantity
\* is greater than its inventory fails with InsufficientStock and changes
\* nothing.
C7_Original ==
  \A s \in Sessions : AsksTooMuch(s) => FailedInsufficientUnchanged(s)

\* C7 (amended): an outgoing call whose line items all name catalog products
\* and whose merged quantities are all greater than zero, in which some
\* product's merged quantity is greater than its inventory, fails with
\* InsufficientStock and leaves every inventory and the persisted
\* transactions as they were.
C7_InsufficientStockChangesNothing ==
  \A s \in Sessions :
    (/\ AsksTooMuch(s)
     /\ \A p \in Named(s) : p \in Catalog /\ Requested(s, p) > 0)
    => FailedInsufficientUnchanged(s)

\* C7 witness: the call failed for one product while another product of the
\* same batch had enough
C7_Witness ==
  \E s \in Sessions, p \in Catalog, q \in Catalog :
    /\ Failed(s, InsufficientStock)
    /\ {p, q} \subseteq Named(s)
    /\ Requested(s, p) > prior[s].inventory[p]
    /\ Requested(s, q) > 0 /\ Requested(s, q) <= prior[s].inventory[q]

NamesUnknown(s) == Called(s) /\ Named(s) \ Catalog # {}

FailedNotFoundExactly(s) ==
  /\ Failed(s, ProductsNotFound)
  /\ Range(error[s].payload) = Named(s) \ Catalog
  /\ Len(error[s].payload) = Cardinality(Named(s) \ Catalog)
  /\ NothingChanged(s)

\* C8 (as claimed): a call whose batch names a product id absent from the
\* catalog fails with ProductsNotFound carrying exactly the unresolved ids,
\* and changes nothing.
C8_Original ==
  \A s \in Sessions : NamesUnknown(s) => FailedNotFoundExactly(s)

\* C8 (amended): a call whose merged quantities are all greater than zero
\* and, when incoming, whose provider id is absent or resolves, and whose
\* batch names a product id absent from the catalog, fails with
\* ProductsNotFound carrying exactly the unresolved ids, and changes nothing.
C8_ProductsNotFoundExactly ==
  \A s \in Sessions :
    (/\ NamesUnknown(s)
     /\ \A p \in Named(s) : Requested(s, p) > 0
     /\ request[s].provider_id \subseteq Providers)
    => FailedNotFoundExactly(s)

\* C8 witness: the batch named a catalog product and an absent one
C8_Witness ==
  \E s \in Sessions :
    /\ Failed(s, ProductsNotFound)
    /\ Named(s) \cap Catalog # {}
    /\ Named(s) \ Catalog # {}

\* C9 (as claimed): an incoming call with line items and a provider id that
\* does not resolve fails with ProviderNotFound and changes nothing.
C9_ProviderNotFound ==
  \A s \in Sessions :
    (/\ Called(s) /\ request[s].type = "incoming"
     /\ Len(request[s].products) > 0
     /\ request[s].provider_id # {}
     /\ ~(request[s].provider_id \subseteq Providers))
    => (Failed(s, ProviderNotFound) /\ NothingChanged(s))

\* C10: a call with no line items fails with EmptyTransaction before any
\* provider or product lookup and changes nothing, and no persisted
\* transaction has zero line items.
C10_EmptyTransactionFirst ==
  /\ \A s \in Sessions :
       (Called(s) /\ request[s].products = <<>>) =>
         /\ Failed(s, EmptyTransaction)
         /\ "provider_lookup" \notin Range(steps[s])
         /\ "product_lookup" \notin Range(steps[s])
         /\ NothingChanged(s)
  /\ \A i \in 1..Len(transactions) :
       Len(transactions[i].products_transaction) > 0

\* C10 witness: an empty incoming call that named an absent provider
C10_Witness ==
  \E s \in Sessions :
    /\ Failed(s, EmptyTransaction)
    /\ request[s].type = "incoming"
    /\ request[s].provider_id = {2}
    /\ request[s].products = <<>>


Normalized(s) == "normalize" \in Range(steps[s])

\* C11: InvalidQuantity carries exactly the product ids whose merged
\* quantity is <= 0 and InsufficientStock exactly the product ids whose
\* merged quantity exceeds the inventory, each id once.
C11_BatchErrorsComplete ==
  \A s \in Sessions :
    /\ Failed(s, InvalidQuantity) =>
         /\ Range(error[s].payload) = {p \in Named(s) : Requested(s, p) <= 0}
         /\ Len(error[s].payload) = Cardinality(Range(error[s].payload))
    /\ Failed(s, InsufficientStock) =>
         /\ Range(error[s].payload) =
              {p \in Named(s) : Requested(s, p) > prior[s].inventory[p]}
         /\ Len(error[s].payload) = Cardinality(Range(error[s].payload))

\* C11 witness: a batch error that names two offenders
C11_Witness ==
  \E s \in Sessions :
    /\ pc[s] = "failed"
    /\ error[s].kind \in {InvalidQuantity, InsufficientStock}
    /\ Len(error[s].payload) = 2

\* the batch with one line item per product, in the order of the first
\* occurrences, each with the sum of the quantities asked of the product
RECURSIVE MergedBatch(_, _)
MergedBatch(items, all) ==
  IF items = <<>> THEN <<>>
  ELSE LET rest == MergedBatch(Front(items), all)
           p == Last(items).product_id
       IN IF \E i \in 1..Len(rest) : rest[i].product_id = p THEN rest
          ELSE Append(rest, [product_id |-> p, quantity |-> QuantityOf(all, p)])

Repeats(items) ==
  \E i, j \in 1..Len(items) : i # j /\ items[i].product_id = items[j].product_id

\* the create() call of session s had it been made with the merged batch
MergedCall(s) ==
  CreateChecks([request[s] EXCEPT !.products = MergedBatch(@, @)],
               prior[s].inventory)

\* C12: a call whose batch repeats a product has the outcome, the resulting
\* inventories and the persisted line items of the call whose batch has
\* every product once with the summed quantity.
C12_DuplicatesMerged ==
  \A s \in Sessions :
    (Called(s) /\ Repeats(request[s].products)) =>
      LET m == MergedCall(s) IN
        /\ (pc[s] = "failed" /\ error[s].kind # StorageError) <=>
             m.error # NoError
        /\ error[s].kind # StorageError => error[s] = m.error
        /\ "insert" \in Range(steps[s]) =>
             Last(transactions).products_transaction = m.checked_products
        /\ pc[s] = "done" =>
             inventory = UpdatedInventory(request[s].type, m.products_found,
                           m.checked_products, prior[s].inventory)

\* C12 witness: a call that repeated a product has succeeded
C12_Witness ==
  \E s \in Sessions :
    /\ pc[s] = "done"
    /\ Repeats(request[s].products)
    /\ inventory # prior[s].inventory

\* C13: the normalizer returns one entry per distinct product id of its
\* input, in strictly ascending product-id order, each with the sum of the
\* input quantities of its product.
C13_NormalizerOutput ==
  \A s \in Sessions :
    Normalized(s) =>
      LET c == checked_products[s] IN
        /\ {c[i].product_id : i \in 1..Len(c)} = Named(s)
        /\ \A i \in 1..Len(c) :
             /\ c[i].quantity = Requested(s, c[i].product_id)
             /\ i > 1 => c[i - 1].product_id < c[i].product_id

\* C13 witness: the input was in descending product-id order
C13_Witness ==
  \E s \in Sessions :
    /\ Normalized(s)
    /\ Len(request[s].products) = 2
    /\ request[s].products[1].product_id > request[s].products[2].product_id

\* C14: normalizing the normalized batch gives the normalized batch.
C14_NormalizeIdempotent ==
  \A s \in Sessions :
    Normalized(s) =>
      _sort_by_id_check_and_sum_duplicates(checked_products[s])
        = checked_products[s]

\* C14 witness: the normalizer has merged a repeated product
C14_Witness ==
  \E s \in Sessions :
    /\ Normalized(s)
    /\ Repeats(request[s].products)
    /\ Len(checked_products[s]) = 1

\* the checks of create() as the request and the inventory decide them
EmptyFails(s) == Len(request[s].products) = 0
ProviderFails(s) ==
  /\ request[s].type = "incoming"
  /\ request[s].provider_id # {}
  /\ ~(request[s].provider_id \subseteq Providers)
QuantityFails(s) == \E p \in Named(s) : Requested(s, p) <= 0
ResolutionFails(s) == Named(s) \ Catalog # {}
StockFails(s) ==
  /\ request[s].type = "outgoing"
  /\ \E p \in Named(s) \cap Catalog : Requested(s, p) > prior[s].inventory[p]

FirstFailing(s) ==
  IF EmptyFails(s) THEN "empty_check"
  ELSE IF ProviderFails(s) THEN "provider_lookup"
  ELSE IF QuantityFails(s) THEN "positive_check"
  ELSE IF ResolutionFails(s) THEN "product_lookup"
  ELSE IF StockFails(s) THEN "stock_check"
  ELSE "none"

\* the claimed order of the steps of a call
ClaimedOrder(s) ==
  <<"empty_check">>
  \o (IF request[s].type = "incoming" /\ request[s].provider_id # {}
      THEN <<"provider_lookup">> ELSE <<>>)
  \o <<"normalize", "positive_check", "product_lookup">>
  \o (IF request[s].type = "outgoing" THEN <<"stock_check">> ELSE <<>>)
  \o <<"insert", "update">>

IsPrefix(a, b) == Len(a) <= Len(b) /\ a = SubSeq(b, 1, Len(a))

\* C19: a call makes its checks in the claimed order, stops at the first
\* check that fails, having written nothing, and inserts the transaction and
\* updates the inventory only after every check has passed.
C19_CheckOrder ==
  \A s \in Sessions :
    Called(s) =>
      /\ IsPrefix(steps[s], ClaimedOrder(s))
      /\ FirstFailing(s) # "none" =>
           /\ pc[s] = "failed"
           /\ Last(steps[s]) = FirstFailing(s)
           /\ NothingChanged(s)
      /\ FirstFailing(s) = "none" =>
           (pc[s] = "failed" => error[s].kind = StorageError)

\* C19 witness: the call stopped at the quantity check although a product
\* of its batch is not in the catalog either
C19_Witness ==
  \E s \in Sessions :
    /\ pc[s] = "failed"
    /\ Last(steps[s]) = "positive_check"
    /\ ResolutionFails(s)

\* C20 (as claimed): the normalizer leaves the caller's batch as it was, so
\* normalizing it again gives the same result.
C20_NormalizerLeavesInput ==
  \A s \in Sessions :
    Normalized(s) =>
      /\ caller_products[s] = request[s].products
      /\ _sort_by_id_check_and_sum_duplicates(caller_products[s])
           = _sort_by_id_check_and_sum_duplicates(request[s].products)

\* ------------------------------------- properties of the persisted records

\* C21: every persisted transaction has at most one line item per product,
\* whatever duplicates the create request contained.
C21_OneLineItemPerProduct ==
  \A t \in 1..Len(transactions) :
    LET items == transactions[t].products_transaction IN
      \A i, j \in 1..Len(items) :
        items[i].product_id = items[j].product_id => i = j

\* C21 witness: the record just inserted for a request that named one
\* product twice holds a single line item with the summed quantity
C21_Witness ==
  \E s \in Sessions :
    /\ pc[s] = "inserted"
    /\ Len(request[s].products) = 2
    /\ Repeats(request[s].products)
    /\ Last(transactions).created_by = s
    /\ Len(Last(transactions).products_transaction) = 1
    /\ Last(transactions).products_transaction[1].quantity
         = request[s].products[1].quantity + request[s].products[2].quantity


\* ------------------------------------------------ properties of the lists

Listed == listing.op # "none"
Paged == listing.op = "fetch_all_with_pagination"
Given(d) == d.type = "date"

\* the rows the claimed date filter and the type filter select
ClaimedRows ==
  SelectSeq(transactions, LAMBDA row :
    /\ Given(listing.start_date) => row.date >= listing.start_date.value
    /\ Given(listing.finish_date) => row.date <= listing.finish_date.value
    /\ listing.transaction_type # "" => row.type = listing.transaction_type)

BadRange ==
  /\ Given(listing.start_date) /\ Given(listing.finish_date)
  /\ listing.start_date.value > listing.finish_date.value

\* C15 (as claimed): a list call whose dates are a date or left at the
\* default None selects the rows between the two dates when both are given,
\* from the start date on when only it is given, up to the finish date when
\* only it is given, and all rows when neither is given.
C15_DateFilter ==
  (/\ Listed
   /\ listing.start_date # EmptyString /\ listing.finish_date # EmptyString
   /\ ~BadRange)
  => /\ listing.op = "fetch_all" => listing.records = ClaimedRows
     /\ (Paged /\ listing.page >= 1 /\ listing.per_page >= 1) =>
          listing.total_items = Len(ClaimedRows)

\* the rows the call's filters match, and the number of pages of n rows
Matching ==
  QueryRows(transactions, listing.start_date, listing.finish_date,
            listing.transaction_type)

Pages(count, n) ==
  CHOOSE k \in 0..count : k * n >= count /\ (k = 0 \/ (k - 1) * n < count)

\* C16: with N >= 1 matching rows, page size n >= 1 and 1 <= p <= ceil(N/n),
\* the paged list returns the matching rows (p-1)*n+1 .. min(p*n, N) in
\* ascending id order, total pages ceil(N/n) and total items N.
C16_PageContents ==
  (/\ Paged /\ ~BadRange
   /\ Len(Matching) >= 1 /\ listing.per_page >= 1
   /\ listing.page >= 1
   /\ listing.page <= Pages(Len(Matching), listing.per_page))
  => LET N == Len(Matching)
         n == listing.per_page
         first == (listing.page - 1) * n + 1
         last == IF listing.page * n < N THEN listing.page * n ELSE N
     IN /\ listing.error = "none"
        /\ Len(listing.records) = last - first + 1
        /\ \A i \in 1..Len(listing.records) :
             listing.records[i] = Matching[first + i - 1]
        /\ \A i \in 2..Len(listing.records) :
             listing.records[i - 1].id < listing.records[i].id
        /\ listing.total_pages = Pages(N, n)
        /\ listing.total_items = N

\* C16 witness: the last page, not full
C16_Witness ==
  /\ Paged /\ listing.error = "none"
  /\ listing.page = 2 /\ listing.per_page = 2
  /\ Len(Matching) = 3
  /\ Len(listing.records) = 1

\* C17 (as claimed): with page >= 1, per_page >= 1 and a date range that is
\* in order, the paged list fails only when the page is greater than the
\* total pages and these are > 0; otherwise, also when no row matches, it
\* returns the page's rows and the pagination metadata.
C17_Original ==
  (/\ Paged /\ ~BadRange /\ listing.page >= 1 /\ listing.per_page >= 1
   /\ ~(/\ listing.page > Pages(Len(Matching), listing.per_page)
        /\ Pages(Len(Matching), listing.per_page) > 0))
  => listing.error = "none"

\* C17 (amended): the paged list fails with InvalidPage when page < 1, with
\* InvalidPageSize when page >= 1 and per_page < 1, then with
\* InvalidDateRange when both dates are given and out of order, then with
\* InvalidPage when the page is greater than the total pages and these are
\* > 0, and with NoTransactionsFound when no row matches; in every other
\* case it returns the page's rows and the pagination metadata.
C17_PagedErrors ==
  Paged =>
    LET total == Pages(Len(Matching), listing.per_page) IN
    listing.error =
      IF listing.page < 1 THEN InvalidPage
      ELSE IF listing.per_page < 1 THEN InvalidPageSize
      ELSE IF BadRange THEN InvalidDateRange
      ELSE IF listing.page > total /\ total > 0 THEN InvalidPage
      ELSE IF Len(Matching) = 0 THEN NoTransactionsFound
      ELSE "none"

\* C17 witness: a paged list that matched no row
C17_Witness ==
  /\ Paged /\ listing.page >= 1 /\ listing.per_page >= 1 /\ ~BadRange
  /\ Len(transactions) > 0 /\ Len(Matching) = 0
  /\ listing.error = NoTransactionsFound

\* C18 (as claimed): a list call, paged or not, whose start date is later
\* than its finish date fails with InvalidDateRange having read nothing.
C18_Original ==
  (Listed /\ BadRange) =>
    (listing.error = InvalidDateRange /\ listing.reads = 0)

\* C18 (amended): a list call whose start date is later than its finish
\* date, and which when paged has page >= 1 and per_page >= 1, fails with
\* InvalidDateRange having read nothing, whatever the other filters are.
C18_BadRangeFailsUnread ==
  (/\ Listed /\ BadRange
   /\ Paged => (listing.page >= 1 /\ listing.per_page >= 1))
  => (listing.error = InvalidDateRange /\ listing.reads = 0)

\* C18 witness: a paged call with a type filter and the dates out of order
C18_Witness ==
  /\ Paged /\ BadRange
  /\ listing.transaction_type = "incoming"
  /\ listing.error = InvalidDateRange
  /\ Len(transactions) > 0

=============================================================================
